---- MODULE Spec2Model ----
(***************************************************************************)
(* A model of the file-backed onboarding store of pmagent.py: the project  *)
(* directories with their project.json and onboarding.json documents, and  *)
(* the operations create_project, get_onboarding, save_onboarding_draft    *)
(* and commit_onboarding, with the helpers _deep_merge, _compute_derived   *)
(* and slugify computed as the code computes them.                         *)
(*                                                                         *)
(* JSON values are pairs <<tag, payload>>: the tag, x[1], is the Python    *)
(* type (isinstance), and x[2] the payload.  A Python dict is a TLA+       *)
(* function from string keys to such pairs; a str is a sequence of         *)
(* one-character strings, so that strip() and lower() are computed, not    *)
(* assumed.                                                                *)
(***************************************************************************)
EXTENDS Integers, Sequences, FiniteSets, TLC

VARIABLES
    dirs,     \* the project directories that exist under projects/
    meta,     \* project id -> parsed project.json, for the ids that have one
    onb,      \* project id -> parsed onboarding.json, for the ids that have one
    now,      \* the wall clock, in seconds (what now_iso() reads)
    last,     \* the last call: operation, arguments, exception, returned value
    arg1,     \* first input of the pure-function specifications
    arg2,     \* second input of the pure-function specifications
    res       \* result of the pure-function specifications

vars == <<dirs, meta, onb, now, last, arg1, arg2, res>>

-----------------------------------------------------------------------------
(* JSON values *)

Null == <<"null", 0>>

Str(s) == <<"str", s>>

List(l) == <<"list", l>>

Map(m) == <<"map", m>>

\* a float, kept in hundredths (round(x, 2) has two decimals)
Num(n) == <<"num", n>>

\* an ISO-8601 timestamp string, kept as the second it names
Ts(n) == <<"ts", n>>

EmptyDict == [k \in {} |-> Null]

IsDict(x) == x[1] = "map"

IsStr(x) == x[1] = "str"

IsList(x) == x[1] = "list"

\* dict.get(k, default)
DictGet(d, k, default) == IF k \in DOMAIN d THEN d[k] ELSE default

\* d[k] = v on a dict
DictSet(d, k, val) == [x \in (DOMAIN d) \cup {k} |-> IF x = k THEN val ELSE d[x]]

\* dict.setdefault(k, v)
SetDefault(d, k, val) == IF k \in DOMAIN d THEN d ELSE DictSet(d, k, val)

\* Python truthiness: bool(x), and the test of `x or y`
Truthy(x) ==
    CASE x[1] = "null" -> FALSE
      [] x[1] = "str"  -> Len(x[2]) > 0
      [] x[1] = "list" -> Len(x[2]) > 0
      [] x[1] = "map"  -> DOMAIN x[2] # {}
      [] x[1] = "num"  -> x[2] # 0
      [] OTHER        -> TRUE

\* x or y
PyOr(x, y) == IF Truthy(x) THEN x ELSE y

\* len(x) is defined on str, list and dict and raises TypeError on the rest
HasLen(x) == x[1] \in {"str", "list", "map"}

PyLen(x) == IF x[1] = "map" THEN Cardinality(DOMAIN x[2]) ELSE Len(x[2])

-----------------------------------------------------------------------------
(* str methods, on sequences of characters *)

IsSpace(c) == c = " "

RECURSIVE LStrip(_)
LStrip(s) == IF s # <<>> /\ IsSpace(s[1]) THEN LStrip(Tail(s)) ELSE s

RECURSIVE RStrip(_)
RStrip(s) ==
    IF s # <<>> /\ IsSpace(s[Len(s)]) THEN RStrip(SubSeq(s, 1, Len(s) - 1)) ELSE s

\* str.strip()
Strip(s) == RStrip(LStrip(s))

\* str.lower(), on the characters the model draws names from
LowerChar(c) ==
    CASE c = "A" -> "a"
      [] c = "B" -> "b"
      [] OTHER   -> c

Lower(s) == [i \in 1..Len(s) |-> LowerChar(s[i])]

-----------------------------------------------------------------------------
(* _deep_merge *)

RECURSIVE deep_merge(_, _)
RECURSIVE MergeLoop(_, _, _)

\* the empty-result mutant of deep_merge: `out = {}` instead of `out = dict(a)`
deep_merge_no_copy(a, b) == MergeLoop(EmptyDict, b, DOMAIN b)

\* dict.update in place of the recursion, a mutant of deep_merge
deep_merge_shallow(a, b) ==
    [k \in (DOMAIN a) \cup (DOMAIN b) |-> IF k \in DOMAIN b THEN b[k] ELSE a[k]]

\* out = dict(a); for k, v in b.items(): ...; return out
deep_merge(a, b) == MergeLoop(a, b, DOMAIN b)

\* the body of the loop of _deep_merge, for the keys still to visit
MergeLoop(out, b, keys) ==
    IF keys = {} THEN out
    ELSE LET k == CHOOSE x \in keys : TRUE
             val == b[k]
             cur == DictGet(out, k, Null)
             nv == IF IsDict(val) /\ IsDict(cur)
                   THEN Map(deep_merge(cur[2], val[2]))
                   ELSE val
         IN  MergeLoop(DictSet(out, k, nv), b, keys \ {k})

-----------------------------------------------------------------------------
(* _compute_derived *)

\* the advisory strings of _compute_derived, each one token
AdviseMetrics == Str(<<"Define 1-2 primary metrics tied to the North Star">>)

AdvisePersona == Str(<<"Add at least 1 persona and 1 top use case">>)

AdviseMilestones == Str(<<"Draft 2-3 milestones with dates and exit criteria">>)

AdviseArtifacts == Str(<<"Link a PRD/design/tech doc or data schema">>)

\* has(path) of _compute_derived, for a path section.field
has(ob, sec, fld) ==
    IF sec \in DOMAIN ob /\ IsDict(ob[sec]) /\ fld \in DOMAIN ob[sec][2]
    THEN LET cur == ob[sec][2][fld]
         IN  CASE IsStr(cur)  -> Strip(cur[2]) # <<>>
               [] IsList(cur) -> Len(cur[2]) > 0
               [] OTHER       -> cur[1] # "null"
    ELSE FALSE

\* ob.get(sec, {}): the section read by the coverage points
Section(ob, sec) == DictGet(ob, sec, Map(EmptyDict))

\* the exception of ob.get(sec, {}).get(fld, dflt): .get on a non-dict
GetExc(ob, sec) == IF IsDict(Section(ob, sec)) THEN "none" ELSE "AttributeError"

\* ob.get(sec, {}).get(fld, dflt), where it does not raise
Field(ob, sec, fld, dflt) == DictGet(Section(ob, sec)[2], fld, dflt)

\* the exception of len(ob.get(sec, {}).get(fld, []))
LenExc(ob, sec, fld) ==
    IF GetExc(ob, sec) # "none" THEN GetExc(ob, sec)
    ELSE IF HasLen(Field(ob, sec, fld, List(<<>>))) THEN "none" ELSE "TypeError"

\* len(ob.get(sec, {}).get(fld, [])) > 0, where it does not raise
NonEmpty(ob, sec, fld) == PyLen(Field(ob, sec, fld, List(<<>>))) > 0

\* the first exception of a sequence of evaluations ("none": no exception)
RECURSIVE FirstExc(_)
FirstExc(es) ==
    IF es = <<>> THEN "none"
    ELSE IF es[1] # "none" THEN es[1] ELSE FirstExc(Tail(es))

\* the exception raised while the list `points` is built, Python evaluating
\* `or` and `and` lazily and the list given to any() eagerly
PointsExc(ob) ==
    FirstExc(<<
        IF has(ob, "intent", "north_star") THEN "none"
        ELSE LenExc(ob, "metrics", "primary_objectives"),
        IF LenExc(ob, "users", "personas") # "none" THEN LenExc(ob, "users", "personas")
        ELSE IF NonEmpty(ob, "users", "personas")
             THEN LenExc(ob, "intent", "top_use_cases") ELSE "none",
        LenExc(ob, "delivery", "milestones"),
        LenExc(ob, "artifacts", "prds"),
        LenExc(ob, "artifacts", "designs"),
        LenExc(ob, "artifacts", "tech_docs"),
        GetExc(ob, "artifacts")
    >>)

\* points[4] with its test negated, a mutant of MilestonesPoint
MilestonesPointNegated(ob) == ~ NonEmpty(ob, "delivery", "milestones")

\* points[4]: len(ob.get('delivery', {}).get('milestones', [])) > 0
MilestonesPoint(ob) == NonEmpty(ob, "delivery", "milestones")

\* the list `points`, where building it does not raise
Points(ob) ==
    << has(ob, "identity", "name"),
       has(ob, "intent", "problem_statement"),
       has(ob, "intent", "north_star") \/ NonEmpty(ob, "metrics", "primary_objectives"),
       NonEmpty(ob, "users", "personas") /\ NonEmpty(ob, "intent", "top_use_cases"),
       MilestonesPoint(ob),
       \/ NonEmpty(ob, "artifacts", "prds")
       \/ NonEmpty(ob, "artifacts", "designs")
       \/ NonEmpty(ob, "artifacts", "tech_docs")
       \/ Truthy(Field(ob, "artifacts", "data_schema", Null)) >>

\* truncation to two decimals in place of rounding, a mutant of Round2
Round2Truncated(n, d) == (100 * n) \div d

\* round(n / d, 2), in hundredths (n / d is never halfway between two of them here)
Round2(n, d) == (200 * n + d) \div (2 * d)

\* the actions appended for the unsatisfied points 2..5 (0-based), in that order
NextBestActions(points) ==
    (IF ~ points[3] THEN <<AdviseMetrics>> ELSE <<>>)
    \o (IF ~ points[4] THEN <<AdvisePersona>> ELSE <<>>)
    \o (IF ~ points[5] THEN <<AdviseMilestones>> ELSE <<>>)
    \o (IF ~ points[6] THEN <<AdviseArtifacts>> ELSE <<>>)

\* the value _compute_derived returns, where it does not raise
DerivedOf(ob) ==
    LET points == Points(ob)
        covered == Cardinality({i \in 1..Len(points) : points[i]})
    IN  Map([confidence_index |-> Num(Round2(covered, Len(points))),
             next_best_actions |-> List(NextBestActions(points))])

\* _compute_derived: the exception it raises, or its value
compute_derived(ob) ==
    IF PointsExc(ob) # "none" THEN [exc |-> PointsExc(ob), val |-> Null]
    ELSE [exc |-> "none", val |-> DerivedOf(ob)]

-----------------------------------------------------------------------------
(* now_iso and slugify *)

\* now_iso(): the clock, to the second
now_iso == Ts(now)

\* the characters re.sub(r"[^a-z0-9\-\s]", "", text) keeps
SlugChar(c) == c \in {"a", "b", "0", "1", "-", " "}

\* re.sub(r"\s+", "-", text) and re.sub(r"-+", "-", text): a run of `from` or
\* of hyphens becomes one hyphen
RECURSIVE Collapse(_, _)
Collapse(s, from) ==
    IF s = <<>> THEN <<>>
    ELSE IF s[1] \in from
         THEN IF Len(s) > 1 /\ s[2] \in from
              THEN Collapse(Tail(s), from)
              ELSE <<"-">> \o Collapse(Tail(s), from)
         ELSE <<s[1]>> \o Collapse(Tail(s), from)

\* str.strip("-")
RECURSIVE StripHyphens(_)
StripHyphens(s) ==
    IF s # <<>> /\ s[1] = "-" THEN StripHyphens(Tail(s))
    ELSE IF s # <<>> /\ s[Len(s)] = "-" THEN StripHyphens(SubSeq(s, 1, Len(s) - 1))
    ELSE s

\* the value of `text` at the return of slugify
SlugBase(text) ==
    LET t1 == Lower(Strip(text))
        t2 == SelectSeq(t1, SlugChar)
        t3 == Collapse(t2, {" "})
    IN  StripHyphens(Collapse(t3, {"-"}))

\* slugify(text); hex is the draw of uuid.uuid4().hex[:6] of the fallback
slugify(text, hex) ==
    IF SlugBase(text) # <<>> THEN SlugBase(text)
    ELSE <<"p", "r", "o", "j", "e", "c", "t", "-">> \o hex

-----------------------------------------------------------------------------
(* the store: files and the reads of them *)

\* a file whose content does not parse as JSON
Corrupt == <<"corrupt", 0>>

\* PMAgent._empty_onboarding
empty_onboarding ==
    [identity  |-> Map([name |-> Str(<<>>), one_line |-> Str(<<>>),
                        owner |-> Map(EmptyDict)]),
     intent    |-> Map([problem_statement |-> Str(<<>>), north_star |-> Str(<<>>),
                        business_objectives |-> List(<<>>), out_of_scope |-> List(<<>>),
                        top_use_cases |-> List(<<>>)]),
     users     |-> Map([personas |-> List(<<>>)]),
     metrics   |-> Map([primary_objectives |-> List(<<>>), guardrails |-> List(<<>>)]),
     delivery  |-> Map([milestones |-> List(<<>>)]),
     artifacts |-> Map([prds |-> List(<<>>), designs |-> List(<<>>),
                        tech_docs |-> List(<<>>), data_schema |-> Null]),
     derived   |-> Map([next_best_actions |-> List(<<>>), confidence_index |-> Num(0)])]

\* a read that falls back on the default whatever the file holds, a mutant of
\* get_onboarding
get_onboarding_default(pid) == empty_onboarding

\* PMAgent.get_onboarding: the document read, the default when the file is
\* absent or does not parse
get_onboarding(pid) ==
    IF pid \in DOMAIN onb /\ onb[pid][1] = "map" THEN onb[pid][2] ELSE empty_onboarding

\* json.loads(meta_path.read_text()) with its fallback when the file is absent
\* or does not parse
ReadMeta(pid, fallback) ==
    IF pid \in DOMAIN meta /\ meta[pid][1] = "map" THEN meta[pid][2] ELSE fallback

\* write_text(json.dumps(doc)) to the file of project pid
WriteFile(files, pid, doc) ==
    [x \in (DOMAIN files) \cup {pid} |-> IF x = pid THEN Map(doc) ELSE files[x]]

\* PMAgent._touch_project: the project.json it writes
touch_project(pid) ==
    LET m == SetDefault(ReadMeta(pid, EmptyDict), "id", Str(pid))
    IN  DictSet(m, "updated_at", now_iso)

-----------------------------------------------------------------------------
(* save_onboarding_draft *)

\* a save that keeps the derived section as merged, a mutant of SaveResult
SaveResultStale(existing, patch) ==
    LET merged == deep_merge(existing, patch)
    IN  [exc |-> compute_derived(merged).exc, doc |-> merged]

\* merged = _deep_merge(existing, patch); merged["derived"] = _compute_derived(merged):
\* the exception raised, or the document written and returned
SaveResult(existing, patch) ==
    LET merged == deep_merge(existing, patch)
        d == compute_derived(merged)
    IN  IF d.exc # "none" THEN [exc |-> d.exc, doc |-> EmptyDict]
        ELSE [exc |-> "none", doc |-> DictSet(merged, "derived", d.val)]

-----------------------------------------------------------------------------
(* commit_onboarding *)

\* the exception of ob.get(sec, {}).get(fld, "").strip()
RequiredExc(ob, sec, fld) ==
    IF ~ IsDict(Section(ob, sec)) THEN "AttributeError"
    ELSE IF ~ IsStr(Field(ob, sec, fld, Str(<<>>))) THEN "AttributeError"
    ELSE "none"

\* not ob.get(sec, {}).get(fld, "").strip(), where it does not raise
RequiredEmpty(ob, sec, fld) == Strip(Field(ob, sec, fld, Str(<<>>))[2]) = <<>>

\* the exception raised while the two required fields are read
ValidateExc(ob) ==
    FirstExc(<<RequiredExc(ob, "identity", "name"),
               RequiredExc(ob, "intent", "problem_statement")>>)

\* the list `missing`, where reading the fields does not raise
Missing(ob) ==
    (IF RequiredEmpty(ob, "identity", "name") THEN <<"identity.name">> ELSE <<>>)
    \o (IF RequiredEmpty(ob, "intent", "problem_statement")
        THEN <<"intent.problem_statement">> ELSE <<>>)

\* the exception commit_onboarding raises on document ob ("none": it returns)
CommitExcOf(ob) ==
    IF ValidateExc(ob) # "none" THEN ValidateExc(ob)
    ELSE IF Missing(ob) # <<>> THEN "ValueError"
    ELSE compute_derived(ob).exc

\* the fields the ValueError of commit_onboarding names
CommitMissingOf(ob) == IF ValidateExc(ob) = "none" THEN Missing(ob) ELSE <<>>

\* a commit that consumes the draft, a mutant of CommitDoc
CommitDocReset(ob) == empty_onboarding

\* ob["derived"] = _compute_derived(ob): the document written and returned
CommitDoc(ob) == DictSet(ob, "derived", compute_derived(ob).val)

\* a summary that prefers the existing description, a mutant of Summary
SummaryStale(ob, m) ==
    PyOr(PyOr(DictGet(m, "description", Str(<<>>)),
              Field(ob, "identity", "one_line", Null)),
         Field(ob, "intent", "north_star", Null))

\* summary = one_line or north_star or meta.get("description", "")
Summary(ob, m) ==
    PyOr(PyOr(Field(ob, "identity", "one_line", Null),
              Field(ob, "intent", "north_star", Null)),
         DictGet(m, "description", Str(<<>>)))

\* the project.json commit_onboarding writes
CommitMeta(pid, ob) ==
    LET m0 == ReadMeta(pid, [id |-> Str(pid)])
        m1 == DictSet(m0, "name",
                      PyOr(Field(ob, "identity", "name", Null), DictGet(m0, "name", Null)))
        m2 == DictSet(m1, "description", Summary(ob, m0))
    IN  DictSet(m2, "updated_at", now_iso)

-----------------------------------------------------------------------------
(* create_project *)

\* a test that rejects the empty name only, a mutant of NameRejected
NameRejectedEmptyOnly(name) == name = <<>>

\* not name or not name.strip()
NameRejected(name) == name = <<>> \/ Strip(name) = <<>>

\* project_id = f"{base}-{suffix}"
ProjectId(name, hex, suffix) == slugify(name, hex) \o <<"-">> \o suffix

\* the dict `meta` of create_project
CreateMeta(name, description, hex, suffix) ==
    [id          |-> Str(ProjectId(name, hex, suffix)),
     name        |-> Str(Strip(name)),
     description |-> Str(IF description # <<>> THEN Strip(description) ELSE <<>>),
     created_at  |-> now_iso,
     updated_at  |-> now_iso]

-----------------------------------------------------------------------------
(* list_projects *)

\* the characters of identifiers and names, by code point
Alphabet ==
    <<" ", "!", "-", "0", "1", "A", "N", "P", "S", "X",
      "a", "b", "c", "d", "e", "g", "j", "l", "o", "p", "r", "t">>

\* the place of c among them: c < d in Python iff Ord(c) < Ord(d)
Ord(c) == CHOOSE i \in 1..Len(Alphabet) : Alphabet[i] = c

\* s < t on str
RECURSIVE StrLess(_, _)
StrLess(s, t) ==
    IF t = <<>> THEN FALSE
    ELSE IF s = <<>> THEN TRUE
    ELSE IF s[1] = t[1] THEN StrLess(Tail(s), Tail(t))
    ELSE Ord(s[1]) < Ord(t[1])

\* sorted(self.projects_dir.glob("*/project.json")): the directories that hold
\* a project.json, by name
RECURSIVE SortedPaths(_)
SortedPaths(S) ==
    IF S = {} THEN <<>>
    ELSE LET least == CHOOSE x \in S : \A y \in S \ {x} : StrLess(x, y)
         IN  <<least>> \o SortedPaths(S \ {least})

\* the loop of list_projects: a file that parses is appended with its id
\* defaulted to the directory name, any other is skipped
RECURSIVE Loaded(_, _)
Loaded(files, paths) ==
    IF paths = <<>> THEN <<>>
    ELSE LET pid == Head(paths)
         IN  IF files[pid][1] = "map"
             THEN <<SetDefault(files[pid][2], "id", Str(pid))>> \o Loaded(files, Tail(paths))
             ELSE Loaded(files, Tail(paths))

\* datetime.fromisoformat("1970-01-01T00:00:00+00:00").timestamp()
Epoch == 0

\* sort_key(m): (0 - timestamp of updated_at, name)
sort_key(m) ==
    <<0 - DictGet(m, "updated_at", Ts(Epoch))[2], DictGet(m, "name", Str(<<>>))[2]>>

\* k1 < k2 on the tuples sort_key returns
KeyLess(k1, k2) == k1[1] < k2[1] \/ (k1[1] = k2[1] /\ StrLess(k1[2], k2[2]))

\* list.sort is stable: m goes behind every entry whose key is not greater
RECURSIVE Insert(_, _)
Insert(sorted, m) ==
    IF sorted = <<>> THEN <<m>>
    ELSE IF KeyLess(sort_key(m), sort_key(Head(sorted))) THEN <<m>> \o sorted
    ELSE <<Head(sorted)>> \o Insert(Tail(sorted), m)

\* out.sort(key=sort_key)
RECURSIVE SortByKey(_)
SortByKey(out) ==
    IF out = <<>> THEN <<>>
    ELSE Insert(SortByKey(SubSeq(out, 1, Len(out) - 1)), out[Len(out)])

\* the exception sort_key raises on m, outside the try of the loop: None has
\* no replace, and fromisoformat rejects a str that is no ISO date
SortKeyExc(m) ==
    IF "updated_at" \notin DOMAIN m \/ m["updated_at"][1] = "ts" THEN "none"
    ELSE IF m["updated_at"][1] = "str" THEN "ValueError"
    ELSE "AttributeError"

\* the first exception sort_key raises over the list, the keys being computed
\* in list order
RECURSIVE SortExc(_)
SortExc(out) ==
    IF out = <<>> THEN "none"
    ELSE IF SortKeyExc(Head(out)) # "none" THEN SortKeyExc(Head(out))
    ELSE SortExc(Tail(out))

\* glob("*/project.json"): the directories among ds that hold a project.json
Globbed(ds, files) == {pid \in ds : pid \in DOMAIN files}

\* a listing of every directory, a mutant of list_projects
list_projects_all_dirs(ds, files) ==
    [exc |-> "none",
     val |-> SortByKey([i \in 1..Cardinality(ds) |->
                LET pid == SortedPaths(ds)[i]
                IN  IF pid \in DOMAIN files /\ files[pid][1] = "map"
                    THEN SetDefault(files[pid][2], "id", Str(pid))
                    ELSE [id |-> Str(pid)]])]

\* PMAgent.list_projects on the directories ds and their project.json files:
\* the exception raised ("none": it returned) and the list returned
list_projects(ds, files) ==
    LET out == Loaded(files, SortedPaths(Globbed(ds, files)))
    IN  IF SortExc(out) # "none" THEN [exc |-> SortExc(out), val |-> <<>>]
        ELSE [exc |-> "none", val |-> SortByKey(out)]

-----------------------------------------------------------------------------
(* bounds and inputs *)

\* calls made in a run
MaxCalls == 3

\* seconds the clock advances in a run
MaxNow == 1

\* project directories in a run
MaxProjects == 2

\* the (name, description) pairs create_project is called with
CreateInputs ==
    { <<<<>>, <<>>>>,
      <<<<" ">>, <<"o", "l", "d">>>>,
      <<<<" ", "A", " ", "b", "!">>, <<"o", "l", "d">>>>,
      <<<<"a", "-", "b">>, <<" ", "d">>>>,
      <<<<"!">>, <<>>>> }

\* the draws of uuid.uuid4().hex[:6]
HexDraws == {<<"0">>, <<"1">>}

\* uuid4 is drawn for the fallback only when the slug is empty, and for the
\* suffix only when the name is accepted; elsewhere the draw is never made
NoDraw == {<<"0">>}

FallbackDraws(name) == IF SlugBase(name) = <<>> THEN HexDraws ELSE NoDraw

SuffixDraws(name) == IF NameRejected(name) THEN NoDraw ELSE HexDraws

\* an identifier no create_project returned
UnknownIds == {<<"g">>}

Element(c) == Map([name |-> Str(<<c>>)])

\* the patches save_onboarding_draft is called with
PatchRequired ==
    [identity |-> Map([name |-> Str(<<"X">>), one_line |-> Str(<<>>)]),
     intent   |-> Map([problem_statement |-> Str(<<"P">>)])]

PatchDirection ==
    [identity |-> Map([name |-> Str(<<"X">>), one_line |-> Str(<<>>)]),
     intent   |-> Map([problem_statement |-> Str(<<"P">>), north_star |-> Str(<<"N">>)])]

\* a one-liner, and a derived section the caller made up
PatchOneLine ==
    [identity |-> Map([one_line |-> Str(<<"S">>)]),
     derived  |-> Map([confidence_index |-> Num(100), next_best_actions |-> List(<<>>)])]

PatchBlankProblem == [intent |-> Map([problem_statement |-> Str(<<" ">>)])]

PatchNullName == [identity |-> Map([name |-> Null])]

PatchNullUsers == [users |-> Null]

Patches ==
    {PatchRequired, PatchDirection, PatchOneLine, PatchBlankProblem, PatchNullName,
     PatchNullUsers}

-----------------------------------------------------------------------------
(* the operations *)

\* the record of a call: its number, operation, project id, argument, the
\* exception raised ("none": it returned), the fields a ValueError names, the
\* value returned, and how many commits of pid have succeeded in a row
Call(n, op, pid, arg, exc, missing, ret, streak) ==
    [n |-> n, op |-> op, pid |-> pid, arg |-> arg, exc |-> exc,
     missing |-> missing, ret |-> ret, streak |-> streak]

\* PMAgent._project_dir: mkdir(parents=True, exist_ok=True)
project_dir(pid) == dirs \cup {pid}

\* the directory of pid exists or may still be made within the bound
InBounds(pid) == pid \in dirs \/ Cardinality(dirs) < MaxProjects

MayCall == last.n < MaxCalls

StoreInit ==
    /\ dirs = {}
    /\ meta = <<>>
    /\ onb = <<>>
    /\ now = 0
    /\ last = Call(0, "init", <<>>, Null, "none", <<>>, Null, 0)

StoreUnchanged == UNCHANGED <<dirs, meta, onb, now, last>>

PureUnchanged == UNCHANGED <<arg1, arg2, res>>

Init ==
    /\ StoreInit
    /\ arg1 = EmptyDict
    /\ arg2 = EmptyDict
    /\ res = Null

\* a second passes
Tick ==
    /\ now < MaxNow
    /\ now' = now + 1
    /\ UNCHANGED <<dirs, meta, onb, last>>
    /\ PureUnchanged

\* PMAgent.create_project(name, description)
create_project(name, description, hex, suffix) ==
    /\ MayCall
    /\ LET arg == Map([name |-> Str(name), description |-> Str(description)])
       IN  IF NameRejected(name)
           THEN /\ last' = Call(last.n + 1, "create", <<>>, arg, "ValueError", <<>>, Null, 0)
                /\ UNCHANGED <<dirs, meta, onb>>
           ELSE LET pid == ProjectId(name, hex, suffix)
                    m == CreateMeta(name, description, hex, suffix)
                IN  /\ InBounds(pid)
                    /\ dirs' = project_dir(pid)
                    /\ meta' = WriteFile(meta, pid, m)
                    /\ onb' = IF pid \in DOMAIN onb THEN onb
                              ELSE WriteFile(onb, pid, empty_onboarding)
                    /\ last' = Call(last.n + 1, "create", pid, arg, "none", <<>>, Map(m), 0)
    /\ UNCHANGED now
    /\ PureUnchanged

\* PMAgent.get_onboarding(project_id), called from outside
GetOnboarding(pid) ==
    /\ MayCall
    /\ InBounds(pid)
    /\ dirs' = project_dir(pid)
    /\ last' = Call(last.n + 1, "get", pid, Null, "none", <<>>, Map(get_onboarding(pid)), 0)
    /\ UNCHANGED <<meta, onb, now>>
    /\ PureUnchanged

\* PMAgent.save_onboarding_draft(project_id, patch)
save_onboarding_draft(pid, patch) ==
    /\ MayCall
    /\ InBounds(pid)
    /\ dirs' = project_dir(pid)
    /\ LET r == SaveResult(get_onboarding(pid), patch)
       IN  IF r.exc # "none"
           THEN /\ last' = Call(last.n + 1, "save", pid, Map(patch), r.exc, <<>>, Null, 0)
                /\ UNCHANGED <<meta, onb>>
           ELSE /\ onb' = WriteFile(onb, pid, r.doc)
                /\ meta' = WriteFile(meta, pid, touch_project(pid))
                /\ last' = Call(last.n + 1, "save", pid, Map(patch), "none", <<>>,
                                Map(r.doc), 0)
    /\ UNCHANGED now
    /\ PureUnchanged

\* the successful commits of pid in a row, this one included
Streak(pid) ==
    IF last.op = "commit" /\ last.exc = "none" /\ last.pid = pid
    THEN last.streak + 1 ELSE 1

\* PMAgent.commit_onboarding(project_id)
commit_onboarding(pid) ==
    /\ MayCall
    /\ InBounds(pid)
    /\ dirs' = project_dir(pid)
    /\ LET ob == get_onboarding(pid)
           exc == CommitExcOf(ob)
       IN  IF exc # "none"
           THEN /\ last' = Call(last.n + 1, "commit", pid, Null, exc, CommitMissingOf(ob),
                                Null, 0)
                /\ UNCHANGED <<meta, onb>>
           ELSE /\ onb' = WriteFile(onb, pid, CommitDoc(ob))
                /\ meta' = WriteFile(meta, pid, CommitMeta(pid, CommitDoc(ob)))
                /\ last' = Call(last.n + 1, "commit", pid, Null, "none", <<>>,
                                Map(CommitDoc(ob)), Streak(pid))
    /\ UNCHANGED now
    /\ PureUnchanged

\* the list list_projects returns, as a JSON value
Listing(ds, files) ==
    LET r == list_projects(ds, files) IN List([i \in 1..Len(r.val) |-> Map(r.val[i])])

\* PMAgent.list_projects(), called from outside
ListProjects ==
    /\ MayCall
    /\ last' = Call(last.n + 1, "list", <<>>, Null, list_projects(dirs, meta).exc,
                    <<>>, Listing(dirs, meta), 0)
    /\ UNCHANGED <<dirs, meta, onb, now>>
    /\ PureUnchanged

\* the identifiers a caller passes: those of the directories, and an unknown one
PidInputs == dirs \cup UnknownIds

Next ==
    \/ Tick
    \/ \E c \in CreateInputs :
          \E hex \in FallbackDraws(c[1]), suffix \in SuffixDraws(c[1]) :
             create_project(c[1], c[2], hex, suffix)
    \/ \E pid \in PidInputs : GetOnboarding(pid)
    \/ \E pid \in PidInputs, patch \in Patches : save_onboarding_draft(pid, patch)
    \/ \E pid \in PidInputs : commit_onboarding(pid)
    \/ ListProjects

Spec == Init /\ [][Next]_vars

-----------------------------------------------------------------------------
(* the pure functions, applied to inputs drawn from bounded sets *)

\* elements in a list of an input document
MaxListLen == 1

\* the outcome of a function: the exception raised ("none": it returned), and its value
Result(exc, val) == <<"result", [exc |-> exc, val |-> val]>>

\* the lists of at most MaxListLen elements
Lists == {List([i \in 1..k |-> Element("e")]) : k \in 0..MaxListLen}

\* the str values of a field: empty, blank, and with content
Texts == {<<>>, <<" ">>, <<"X">>}

\* artifacts.data_schema: null or {type, value}
Schema == Map([type |-> Str(<<"l">>), value |-> Str(<<"u">>)])

Schemas == {Null, Schema}

\* an onboarding document of the shape of _empty_onboarding
Document(name, problem, north, objectives, personas, cases, milestones, prds, designs, docs, schema) ==
    [identity  |-> Map([name |-> Str(name), one_line |-> Str(<<>>),
                        owner |-> Map(EmptyDict)]),
     intent    |-> Map([problem_statement |-> Str(problem), north_star |-> Str(north),
                        business_objectives |-> List(<<>>), out_of_scope |-> List(<<>>),
                        top_use_cases |-> cases]),
     users     |-> Map([personas |-> personas]),
     metrics   |-> Map([primary_objectives |-> objectives, guardrails |-> List(<<>>)]),
     delivery  |-> Map([milestones |-> milestones]),
     artifacts |-> Map([prds |-> prds, designs |-> designs,
                        tech_docs |-> docs, data_schema |-> schema]),
     derived   |-> Map([next_best_actions |-> List(<<>>), confidence_index |-> Num(0)])]

\* the documents _compute_derived is applied to
Documents ==
    { Document(n, p, s, o, u, c, m, a1, a2, a3, d) :
        n \in Texts, p \in Texts, s \in Texts, o \in Lists, u \in Lists, c \in Lists,
        m \in Lists, a1 \in Lists, a2 \in Lists, a3 \in Lists, d \in Schemas }

\* the documents a draft is saved onto
DraftDocuments ==
    { Document(n, p, s, o, u, c, m, List(<<>>), List(<<>>), List(<<>>), d) :
        n \in Texts, p \in Texts, s \in Texts, o \in Lists, u \in Lists, c \in Lists,
        m \in Lists, d \in Schemas }

\* the patch {sec: {fld: val}}
FieldPatch(sec, fld, val) == [s \in {sec} |-> Map([f \in {fld} |-> val])]

\* the patches a draft is saved with: every value of every field the coverage
\* points read, and the patches of the store's callers
DraftPatches ==
    {FieldPatch("identity", "name", Str(x)) : x \in Texts}
    \cup {FieldPatch("intent", "problem_statement", Str(x)) : x \in Texts}
    \cup {FieldPatch("intent", "north_star", Str(x)) : x \in Texts}
    \cup {FieldPatch("metrics", "primary_objectives", l) : l \in Lists}
    \cup {FieldPatch("users", "personas", l) : l \in Lists}
    \cup {FieldPatch("intent", "top_use_cases", l) : l \in Lists}
    \cup {FieldPatch("delivery", "milestones", l) : l \in Lists}
    \cup {FieldPatch("artifacts", "data_schema", d) : d \in Schemas}
    \cup Patches

\* the leaves of the nested maps _deep_merge is applied to
Leaves == {Null} \cup Lists

\* the dicts with keys among "a" and "b", the value of "a" in VA, that of "b" in VB
Dicts(VA, VB) ==
    UNION { { f \in [D -> VA \cup VB] :
                /\ ("a" \in D => f["a"] \in VA)
                /\ ("b" \in D => f["b"] \in VB) } : D \in SUBSET {"a", "b"} }

\* nested maps, three levels deep
MergeInputs ==
    LET M1 == Dicts(Leaves, {})
        M2 == Dicts(Leaves \cup {Map(m) : m \in M1}, Leaves)
    IN  Dicts(Leaves \cup {Map(m) : m \in M2}, Leaves)

InitMerge ==
    /\ StoreInit
    /\ arg1 \in MergeInputs
    /\ arg2 \in MergeInputs
    /\ res = Null

\* out = _deep_merge(a, b)
ApplyMerge ==
    /\ res = Null
    /\ res' = Result("none", Map(deep_merge(arg1, arg2)))
    /\ UNCHANGED <<arg1, arg2>>
    /\ StoreUnchanged

SpecMerge == InitMerge /\ [][ApplyMerge]_vars

InitDerived ==
    /\ StoreInit
    /\ arg1 \in Documents
    /\ arg2 = EmptyDict
    /\ res = Null

\* derived = _compute_derived(ob)
ApplyDerived ==
    /\ res = Null
    /\ res' = Result(compute_derived(arg1).exc, compute_derived(arg1).val)
    /\ UNCHANGED <<arg1, arg2>>
    /\ StoreUnchanged

SpecDerived == InitDerived /\ [][ApplyDerived]_vars

InitSave ==
    /\ StoreInit
    /\ arg1 \in DraftDocuments
    /\ arg2 \in DraftPatches
    /\ res = Null

\* the document save_onboarding_draft writes, given the one it read
ApplySave ==
    /\ res = Null
    /\ res' = Result(SaveResult(arg1, arg2).exc, Map(SaveResult(arg1, arg2).doc))
    /\ UNCHANGED <<arg1, arg2>>
    /\ StoreUnchanged

SpecSave == InitSave /\ [][ApplySave]_vars

\* the identifiers of the directories of a store read from disk
DiskIds == {<<"a">>, <<"b">>, <<"c">>}

\* what a project.json of directory pid may hold: the keys the writers of the
\* store set, each there or not, updated_at an ISO date or not one
MetaInputs(pid) ==
    { [k \in D |-> f[k]] :
        D \in SUBSET {"id", "name", "updated_at"},
        f \in [id : {Str(pid)},
               name : {Str(<<"a">>), Str(<<"b">>)},
               updated_at : {Ts(Epoch), Ts(Epoch + 1), Str(<<"X">>), Null}] }

\* the states of the file project.json of directory pid: one that does not
\* parse, or one that does
MetaFiles(pid) == {Corrupt} \cup {Map(m) : m \in MetaInputs(pid)}

\* the project.json files of the directories D: each has one or has none
MetaStores(D) ==
    UNION { { f \in [H -> UNION {MetaFiles(pid) : pid \in H}] :
                \A pid \in H : f[pid] \in MetaFiles(pid) } : H \in SUBSET D }

\* a store as found on disk: directories, some with a project.json
InitList ==
    /\ dirs \in SUBSET DiskIds
    /\ meta \in MetaStores(dirs)
    /\ onb = <<>>
    /\ now = 0
    /\ last = Call(0, "init", <<>>, Null, "none", <<>>, Null, 0)
    /\ arg1 = EmptyDict
    /\ arg2 = EmptyDict
    /\ res = Null

SpecList == InitList /\ [][ListProjects]_vars

\* the onboarding documents the store writes: the default one, and a draft
\* saved over it
StoredDocuments ==
    {empty_onboarding}
    \cup {SaveResult(empty_onboarding, p).doc :
             p \in {q \in Patches : SaveResult(empty_onboarding, q).exc = "none"}}

\* the states of an onboarding.json: one that does not parse, or one that does
OnbFiles == {Corrupt} \cup {Map(d) : d \in StoredDocuments}

\* the states of a project.json next to it
ReadMetaFiles(pid) ==
    {Corrupt, Map([id |-> Str(pid), name |-> Str(<<"X">>), updated_at |-> Ts(Epoch)])}

\* the files of one kind in the directories D, F[pid] the states of the file
\* of pid: each directory has one or none
FileStores(D, F) ==
    UNION { { f \in [H -> UNION {F[pid] : pid \in H}] :
                \A pid \in H : f[pid] \in F[pid] } : H \in SUBSET D }

\* a store as found on disk: directories, some with an onboarding.json, some
\* with a project.json
InitRead ==
    /\ dirs \in SUBSET DiskIds
    /\ meta \in FileStores(dirs, [pid \in dirs |-> ReadMetaFiles(pid)])
    /\ onb \in FileStores(dirs, [pid \in dirs |-> OnbFiles])
    /\ now = 0
    /\ last = Call(0, "init", <<>>, Null, "none", <<>>, Null, 0)
    /\ arg1 = EmptyDict
    /\ arg2 = EmptyDict
    /\ res = Null

NextRead == \E pid \in PidInputs : GetOnboarding(pid)

SpecRead == InitRead /\ [][NextRead]_vars

-----------------------------------------------------------------------------
(* C5, C6: _deep_merge *)

\* out is the merge of b onto a as the specification words it, key by key
RECURSIVE IsReferenceMerge(_, _, _)
IsReferenceMerge(a, b, out) ==
    /\ DOMAIN out = (DOMAIN a) \cup (DOMAIN b)
    /\ \A k \in (DOMAIN a) \ (DOMAIN b) : out[k] = a[k]
    /\ \A k \in DOMAIN b :
          IF k \in DOMAIN a /\ a[k][1] = "map" /\ b[k][1] = "map"
          THEN out[k][1] = "map" /\ IsReferenceMerge(a[k][2], b[k][2], out[k][2])
          ELSE out[k] = b[k]

\* the value the applied function returned
Returned == res[2].val

\* C5: _deep_merge(a, b) is the reference merge of b onto a: keys of a absent
\* from b keep their value, two maps merge recursively, any other patch value
\* (a list, null) replaces the existing value, and a and b are left as they were.
C5_DeepMergeIsReferenceMerge ==
    res # Null => IsReferenceMerge(arg1, arg2, Returned[2])

\* a merge that recurses into "a", keeps a key only a has, and replaces a list by null
C5_Witness ==
    /\ res # Null
    /\ "a" \in DOMAIN arg1 /\ "a" \in DOMAIN arg2
    /\ IsDict(arg1["a"]) /\ IsDict(arg2["a"])
    /\ DOMAIN arg1["a"][2] = {"a", "b"} /\ DOMAIN arg2["a"][2] = {"a"}
    /\ IsList(arg1["a"][2]["a"]) /\ arg2["a"][2]["a"] = Null
    /\ Returned[2]["a"][2]["a"] = Null
    /\ Returned[2]["a"][2]["b"] = arg1["a"][2]["b"]

\* C6: merge(d, d) == d and merge(d, {}) == d.
C6_MergeFixedPoints ==
    (res # Null /\ (arg2 = arg1 \/ arg2 = EmptyDict)) => Returned[2] = arg1

\* a nested document merged with itself
C6_Witness ==
    /\ res # Null
    /\ arg2 = arg1
    /\ DOMAIN arg1 = {"a", "b"}
    /\ IsDict(arg1["a"]) /\ DOMAIN arg1["a"][2] = {"a", "b"}
    /\ IsDict(arg1["a"][2]["a"]) /\ DOMAIN arg1["a"][2]["a"][2] = {"a"}

-----------------------------------------------------------------------------
(* C7: _compute_derived *)

\* a str with a character that is not white space
NonBlank(s) == \E i \in 1..Len(s) : s[i] # " "

\* the six checkpoints of the specification on a document of the data model;
\* trimmed: whether "non-empty" is read as "non-empty after trimming" for
\* intent.problem_statement and intent.north_star too
Checkpoints(d, trimmed) ==
    LET filled(x) == IF trimmed THEN NonBlank(x[2]) ELSE x[2] # <<>>
    IN  << NonBlank(d.identity[2].name[2]),
           filled(d.intent[2].problem_statement),
           filled(d.intent[2].north_star) \/ Len(d.metrics[2].primary_objectives[2]) >= 1,
           Len(d.users[2].personas[2]) >= 1 /\ Len(d.intent[2].top_use_cases[2]) >= 1,
           Len(d.delivery[2].milestones[2]) >= 1,
           \/ Len(d.artifacts[2].prds[2]) >= 1
           \/ Len(d.artifacts[2].designs[2]) >= 1
           \/ Len(d.artifacts[2].tech_docs[2]) >= 1
           \/ d.artifacts[2].data_schema # Null >>

\* k/6 to two decimals, in hundredths, for k = 0..6
SixthsRounded == <<0, 17, 33, 50, 67, 83, 100>>

\* the derived section the specification describes
DerivedAsSpecified(d, trimmed) ==
    LET c == Checkpoints(d, trimmed)
        k == Cardinality({i \in 1..6 : c[i]})
        advice == <<AdviseMetrics, AdvisePersona, AdviseMilestones, AdviseArtifacts>>
        open == SelectSeq(<<3, 4, 5, 6>>, LAMBDA i : ~ c[i])
    IN  Map([confidence_index |-> Num(SixthsRounded[k + 1]),
             next_best_actions |-> List([j \in 1..Len(open) |-> advice[open[j] - 2]])])

\* C7 as stated: the checkpoints with intent.problem_statement and
\* intent.north_star merely non-empty (a blank string counting as content).
C7_AsStated ==
    res # Null => res[2].exc = "none" /\ Returned = DerivedAsSpecified(arg1, FALSE)

\* C7, amended: on every document of the data model _compute_derived returns
\* confidence_index = (satisfied checkpoints)/6 to two decimals and the advisory
\* strings of the unsatisfied checkpoints 3..6 in that order, where the three
\* string checkpoints all mean non-empty after trimming.
C7_DerivedAsSpecified ==
    res # Null => res[2].exc = "none" /\ Returned = DerivedAsSpecified(arg1, TRUE)

\* a named document whose problem statement is blank: 0.17 and all four actions
C7_Witness ==
    /\ res # Null
    /\ arg1.identity[2].name[2] = <<"X">>
    /\ arg1.intent[2].problem_statement[2] = <<" ">>
    /\ Returned[2].confidence_index = Num(17)
    /\ Len(Returned[2].next_best_actions[2]) = 4

-----------------------------------------------------------------------------
(* C8: adding content never lowers the confidence index *)

ContentSections == {"identity", "intent", "users", "metrics", "delivery", "artifacts"}

\* y is x, or x with content added: an empty str made non-empty, a list with
\* elements appended, data_schema set from null
ContentAdded(fld, x, y) ==
    \/ x = y
    \/ IsStr(x) /\ IsStr(y) /\ x[2] = <<>> /\ y[2] # <<>>
    \/ IsList(x) /\ IsList(y) /\ Len(y[2]) > Len(x[2]) /\ SubSeq(y[2], 1, Len(x[2])) = x[2]
    \/ fld = "data_schema" /\ x = Null /\ y # Null

\* d2 is d with content added and nothing else changed
OnlyAddsContent(d, d2) ==
    \A sec \in ContentSections :
        /\ sec \in DOMAIN d2 /\ IsDict(d2[sec])
        /\ DOMAIN d2[sec][2] = DOMAIN d[sec][2]
        /\ \A fld \in DOMAIN d[sec][2] : ContentAdded(fld, d[sec][2][fld], d2[sec][2][fld])

ConfidenceIndex(derived) == derived[2].confidence_index[2]

ActionCount(derived) == Len(derived[2].next_best_actions[2])

\* C8: a draft save that only adds content never lowers confidence_index and
\* never lengthens next_best_actions.
C8_AddingContentIsMonotone ==
    (res # Null /\ res[2].exc = "none" /\ OnlyAddsContent(arg1, Returned[2])) =>
        /\ ConfidenceIndex(Returned[2].derived) >= ConfidenceIndex(DerivedOf(arg1))
        /\ ActionCount(Returned[2].derived) <= ActionCount(DerivedOf(arg1))

\* a save that added a milestone and raised the index
C8_Witness ==
    /\ res # Null /\ res[2].exc = "none"
    /\ OnlyAddsContent(arg1, Returned[2])
    /\ arg1.delivery[2].milestones[2] = <<>>
    /\ Returned[2].delivery[2].milestones[2] # <<>>
    /\ ConfidenceIndex(Returned[2].derived) > ConfidenceIndex(DerivedOf(arg1))
    /\ ActionCount(Returned[2].derived) < ActionCount(DerivedOf(arg1))

-----------------------------------------------------------------------------
(* C1..C4: draft save, commit validation, and the derived section *)

\* a document without its derived section
Content(d) == [k \in (DOMAIN d) \ {"derived"} |-> d[k]]

\* the step is call number last.n + 1, of operation op
IsCall(op) == last'.n = last.n + 1 /\ last'.op = op

\* C1: save_onboarding_draft validates nothing: whatever the patch (a section
\* or a list set to null included) it returns, and the document it writes and
\* returns is the deep merge of the patch onto the existing document.
C1_SaveAcceptsEveryPatch ==
    [][IsCall("save") =>
          /\ last'.exc = "none"
          /\ last'.pid \in DOMAIN onb'
          /\ onb'[last'.pid] = last'.ret
          /\ IsReferenceMerge(Content(get_onboarding(last'.pid)), Content(last'.arg[2]),
                              Content(last'.ret[2]))]_vars

\* sec.fld is absent, null, not a str, or empty after trimming
RequiredAbsent(ob, sec, fld) ==
    ~ ( /\ sec \in DOMAIN ob /\ IsDict(ob[sec])
        /\ fld \in DOMAIN ob[sec][2] /\ IsStr(ob[sec][2][fld])
        /\ NonBlank(ob[sec][2][fld][2]) )

\* the required fields the specification has the validation error name
RequiredMissing(ob) ==
    (IF RequiredAbsent(ob, "identity", "name") THEN <<"identity.name">> ELSE <<>>)
    \o (IF RequiredAbsent(ob, "intent", "problem_statement")
        THEN <<"intent.problem_statement">> ELSE <<>>)

\* C2: commit_onboarding fails with a validation error naming every required
\* field that is absent, null or empty after trimming, and otherwise succeeds
\* and returns the document.
C2_CommitValidatesRequired ==
    last.op = "commit" =>
        LET ob == get_onboarding(last.pid)
        IN  IF RequiredMissing(ob) # <<>>
            THEN last.exc = "ValueError" /\ last.missing = RequiredMissing(ob)
            ELSE last.exc = "none" /\ last.ret = Map(ob)

\* the derived section of d is what _compute_derived makes of its content
DerivedIsFresh(d) ==
    /\ compute_derived(Content(d)).exc = "none"
    /\ "derived" \in DOMAIN d
    /\ d["derived"] = compute_derived(Content(d)).val

\* C3: after a successful save or commit, the derived section written and
\* returned is _compute_derived of the content sections of that document,
\* whatever derived value the patch carried or the store held.
C3_DerivedRecomputedOnWrite ==
    (last.op \in {"save", "commit"} /\ last.exc = "none") =>
        /\ last.pid \in DOMAIN onb
        /\ onb[last.pid] = last.ret
        /\ DerivedIsFresh(last.ret[2])

\* a save whose patch carried a derived section, which was not written
C3_Witness ==
    /\ last.op = "save" /\ last.exc = "none"
    /\ "derived" \in DOMAIN last.arg[2]
    /\ last.ret[2]["derived"] # last.arg[2]["derived"]
    /\ onb[last.pid][2]["derived"] # last.arg[2]["derived"]

\* C4: in every state, the derived section of every stored onboarding document,
\* and of every document get_onboarding returns, is _compute_derived of its
\* content, the state right after create_project included.
C4_DerivedNeverStale ==
    /\ \A pid \in DOMAIN onb : onb[pid][1] = "map" => DerivedIsFresh(onb[pid][2])
    /\ (last.op = "get" /\ last.exc = "none") => DerivedIsFresh(last.ret[2])

-----------------------------------------------------------------------------
(* C9, C10: commit and the project record *)

\* sec.fld of ob is a str with at least one character
FilledIn(ob, sec, fld) ==
    /\ sec \in DOMAIN ob /\ IsDict(ob[sec])
    /\ fld \in DOMAIN ob[sec][2] /\ IsStr(ob[sec][2][fld])
    /\ ob[sec][2][fld][2] # <<>>

\* the description of a project record, empty when the record has none
DescriptionOf(m) == IF "description" \in DOMAIN m THEN m["description"] ELSE Str(<<>>)

\* the step is a commit that returned
CommitReturned == IsCall("commit") /\ last'.exc = "none"

\* C9: after a successful commit the project's name is identity.name, its
\* description is identity.one_line if non-empty, else intent.north_star if
\* non-empty, else the description it had; id and created_at are unchanged and
\* updated_at is the time of the commit.
C9_CommitSyncsProject ==
    [][CommitReturned =>
          LET pid == last'.pid
              ob == last'.ret[2]
              m0 == ReadMeta(pid, EmptyDict)
              m1 == meta'[pid][2]
          IN  /\ m1["name"] = ob.identity[2].name
              /\ m1["description"] =
                    IF FilledIn(ob, "identity", "one_line") THEN ob.identity[2].one_line
                    ELSE IF FilledIn(ob, "intent", "north_star") THEN ob.intent[2].north_star
                    ELSE DescriptionOf(m0)
              /\ m1["id"] = Str(pid)
              /\ "id" \in DOMAIN m0 => m1["id"] = m0["id"]
              /\ ("created_at" \in DOMAIN m1) = ("created_at" \in DOMAIN m0)
              /\ "created_at" \in DOMAIN m0 => m1["created_at"] = m0["created_at"]
              /\ m1["updated_at"] = Ts(now')]_vars

\* a created project committed a second after its creation, its description
\* now the north star
C9_Witness ==
    /\ last.op = "commit" /\ last.exc = "none"
    /\ "created_at" \in DOMAIN meta[last.pid][2]
    /\ meta[last.pid][2]["created_at"] = Ts(0)
    /\ meta[last.pid][2]["updated_at"] = Ts(1)
    /\ meta[last.pid][2]["name"] = Str(<<"X">>)
    /\ meta[last.pid][2]["description"] = Str(<<"N">>)

\* C10: a commit changes no content section; a commit that follows a
\* successful commit of the same project, no call in between, succeeds too,
\* returns the same document, and leaves the stored document and the project's
\* id, name, description and created_at as the first commit left them.
C10_CommitIdempotent ==
    [][/\ CommitReturned =>
             Content(last'.ret[2]) = Content(get_onboarding(last'.pid))
       /\ (/\ IsCall("commit")
           /\ last.op = "commit" /\ last.exc = "none" /\ last.pid = last'.pid) =>
             /\ last'.exc = "none"
             /\ last'.ret = last.ret
             /\ onb'[last.pid] = onb[last.pid]
             /\ [k \in (DOMAIN meta'[last.pid][2]) \ {"updated_at"} |-> meta'[last.pid][2][k]]
                  = [k \in (DOMAIN meta[last.pid][2]) \ {"updated_at"} |-> meta[last.pid][2][k]]
      ]_vars

\* a project committed twice in a row
C10_Witness == last.op = "commit" /\ last.exc = "none" /\ last.streak >= 2

-----------------------------------------------------------------------------
(* C11: list_projects *)

\* the project.json of pid exists and parses
Parses(files, pid) == pid \in DOMAIN files /\ files[pid][1] = "map"

\* the time an entry of the listing sorts by, the epoch when it has none
StampOf(m) == IF "updated_at" \in DOMAIN m THEN m["updated_at"][2] ELSE Epoch

\* the name an entry of the listing sorts by
NameOf(m) == IF "name" \in DOMAIN m THEN m["name"][2] ELSE <<>>

\* the call returned the entries of the store: one for each project.json that
\* parses, with the content of the file
ListsTheParsed(files, ret) ==
    /\ \A pid \in DOMAIN files :
          Parses(files, pid) =>
             Cardinality({i \in 1..Len(ret) : ret[i][2]["id"] = Str(pid)}) = 1
    /\ \A i \in 1..Len(ret) :
          LET pid == ret[i][2]["id"][2]
          IN  /\ Parses(files, pid)
              /\ \A k \in DOMAIN files[pid][2] : ret[i][2][k] = files[pid][2][k]

\* updated_at descending, ties by name ascending
InListOrder(ret) ==
    \A i, j \in 1..Len(ret) :
       i < j =>
          /\ StampOf(ret[i][2]) >= StampOf(ret[j][2])
          /\ StampOf(ret[i][2]) = StampOf(ret[j][2]) =>
                ~StrLess(NameOf(ret[j][2]), NameOf(ret[i][2]))

\* C11: list_projects never fails because of a bad entry; it returns exactly
\* the projects whose project.json exists and parses, each once, ordered by
\* updated_at descending (the epoch for a missing one), then by name ascending.
C11_ListToleratesBadEntries ==
    last.op = "list" =>
        /\ last.exc = "none"
        /\ ListsTheParsed(meta, last.ret[2])
        /\ InListOrder(last.ret[2])

-----------------------------------------------------------------------------
(* C12: the identifier create_project returns *)

\* the step is a create_project that returned
CreateReturned == IsCall("create") /\ last'.exc = "none"

\* C12: the identifier a successful create_project returns is that of no
\* project already in the store, so that no project.json is overwritten, and
\* the new project's onboarding document is the all-empty default.
C12_CreateReturnsFreshId ==
    [][CreateReturned =>
          /\ last'.pid \notin DOMAIN meta
          /\ \A pid \in DOMAIN meta : meta'[pid] = meta[pid]
          /\ onb'[last'.pid] = Map(empty_onboarding)]_vars

-----------------------------------------------------------------------------
(* C13: get_onboarding *)

\* C13: get_onboarding never fails; it returns the stored document when
\* onboarding.json exists and parses, the all-empty default when it is absent
\* or does not parse (an identifier never created included), and it changes no
\* project.json and no onboarding.json.
C13_GetOnboardingNeverFails ==
    [][IsCall("get") =>
          LET pid == last'.pid
          IN  /\ last'.exc = "none"
              /\ last'.ret = IF pid \in DOMAIN onb /\ onb[pid] # Corrupt
                             THEN onb[pid] ELSE Map(empty_onboarding)
              /\ meta' = meta
              /\ onb' = onb]_vars

\* the default returned for a document that does not parse, in a store that
\* holds a draft of another project
C13_Witness ==
    /\ last.op = "get" /\ last.exc = "none"
    /\ last.pid \in DOMAIN onb /\ onb[last.pid] = Corrupt
    /\ last.ret = Map(empty_onboarding)
    /\ \E pid \in DOMAIN onb :
          onb[pid] \notin {Corrupt, Map(empty_onboarding)}

-----------------------------------------------------------------------------
(* C14: create_project and the name *)

\* s is empty or white space only
Blank(s) == \A i \in 1..Len(s) : s[i] = " "

\* a create_project with a blank name fails with the validation error and
\* leaves the store and the listing as they were; with any other name it
\* returns and stores the project under the trimmed name and the description
\* given; trimmed: whether the description is stored trimmed too
CreateAsSpecified(trimmed) ==
    IsCall("create") =>
        LET given == last'.arg[2]
        IN  IF Blank(given.name[2])
            THEN /\ last'.exc = "ValueError"
                 /\ dirs' = dirs /\ meta' = meta /\ onb' = onb
                 /\ list_projects(dirs', meta') = list_projects(dirs, meta)
            ELSE /\ last'.exc = "none"
                 /\ last'.pid \in DOMAIN meta'
                 /\ meta'[last'.pid] = last'.ret
                 /\ last'.ret[2]["name"] = Str(Strip(given.name[2]))
                 /\ last'.ret[2]["description"] =
                       IF trimmed THEN Str(Strip(given.description[2]))
                       ELSE given.description

\* C14 as stated: the project is stored with the description as given.
C14_AsStated == [][CreateAsSpecified(FALSE)]_vars

\* C14, amended: a blank name is rejected and nothing is created; any other
\* name is stored trimmed, and the description is stored trimmed too.
C14_CreateValidatesName == [][CreateAsSpecified(TRUE)]_vars

\* a blank name rejected, in a store that holds a project whose description
\* was given with white space around it
C14_Witness ==
    /\ last.op = "create" /\ last.exc = "ValueError"
    /\ last.arg[2].name = Str(<<" ">>)
    /\ \E pid \in DOMAIN meta :
          /\ meta[pid][2]["name"] = Str(<<"a", "-", "b">>)
          /\ meta[pid][2]["description"] = Str(<<"d">>)

-----------------------------------------------------------------------------
(* C15: a commit that fails *)

\* C15: a commit_onboarding that raises leaves every onboarding.json (its
\* derived section included) and every project.json as they were, those of
\* the other projects too, and list_projects returns what it returned before.
C15_FailedCommitChangesNothing ==
    [][(IsCall("commit") /\ last'.exc # "none") =>
          /\ onb' = onb
          /\ meta' = meta
          /\ list_projects(dirs', meta') = list_projects(dirs, meta)]_vars

\* a commit that failed validation on a created project with a saved draft
C15_Witness ==
    /\ last.op = "commit" /\ last.exc = "ValueError"
    /\ last.missing # <<>>
    /\ last.pid \in DOMAIN meta /\ "created_at" \in DOMAIN meta[last.pid][2]
    /\ last.pid \in DOMAIN onb /\ onb[last.pid] # Map(empty_onboarding)

====
